---- MODULE Spec2Model ----
(***************************************************************************)
(* react-observable-class: the callback scheduler (src/src/callbacksQueue.ts) *)
(* and the Observable proxy with forceNotify and useObservables              *)
(* (src/src/index.tsx), run on a JavaScript event loop: a task is one         *)
(* synchronous execution of user code; the flush queued with               *)
(* promise.then runs as a microtask once the task has returned.             *)
(***************************************************************************)
EXTENDS Integers, Sequences, FiniteSets, TLC

\* ------------------------------------------------------------------ bounds
NumObs == 2     \* Observable instances
NumCB == 2      \* callback identities
MaxMut == 2     \* genuine mutations counted in one synchronous execution
MaxArgs == 2    \* arguments of one forceNotify / useObservables call
MaxRounds == 2  \* rounds counted for one callback

Obs == 1..NumObs
CB == 1..NumCB
\* A plain object `{}` passed where an Observable is expected.
NonObservable == 0
\* Top-level attribute names; none of them is defined on the prototype chain.
Props == {"prop1", "prop2"}
Undefined == "undefined"
\* JavaScript values: undefined, NaN, the two zeros and an ordinary number.
Values == {Undefined, "NaN", "+0", "-0", "1"}

\* ------------------------------------------------- JavaScript Set<CB>
\* A JavaScript Set is kept as the sequence of its members in insertion order.
Range(s) == {s[i] : i \in 1..Len(s)}

\* An add that moves a member it already holds to the end.
SetAddLast(s, x) == Append(SelectSeq(s, LAMBDA y : y # x), x)

SetAdd(s, x) == IF x \in Range(s) THEN s ELSE Append(s, x)

SetDelete(s, x) == SelectSeq(s, LAMBDA y : y # x)

RECURSIVE forEachAdd(_, _)
forEachAdd(queue, callbackSet) ==
  IF callbackSet = <<>> THEN queue
  ELSE forEachAdd(SetAdd(queue, Head(callbackSet)), Tail(callbackSet))

Count(s, x) == Cardinality({i \in 1..Len(s) : s[i] = x})

\* ------------------------------------------------- JavaScript values
StrictEquals(a, b) ==
  IF a = "NaN" \/ b = "NaN" THEN FALSE
  ELSE IF a \in {"+0", "-0"} /\ b \in {"+0", "-0"} THEN TRUE
  ELSE a = b

ObjectIsStrict(a, b) == StrictEquals(a, b)
ObjectIs(a, b) == a = b

\* ------------------------------------------------- property records
\* An own property of the target: absent, a data property or an accessor whose
\* getter returns `value` and which has no setter.
Absent ==
  [kind |-> "absent", value |-> Undefined, writable |-> FALSE,
   enumerable |-> FALSE, configurable |-> FALSE]

\* target[prop]
Get(slot) == IF slot.kind = "absent" THEN Undefined ELSE slot.value

hasOwn(obj, prop) == prop \in DOMAIN obj

Field(desc, f, default) == IF hasOwn(desc, f) THEN desc[f] ELSE default

IsAccessorDescriptor(desc) == hasOwn(desc, "get")
IsDataDescriptor(desc) == hasOwn(desc, "value") \/ hasOwn(desc, "writable")

\* ValidateAndApplyPropertyDescriptor of an extensible object: whether the
\* definition is accepted.
ValidateDescriptor(cur, desc) ==
  IF cur.kind = "absent" \/ cur.configurable THEN TRUE
  ELSE /\ ~(hasOwn(desc, "configurable") /\ desc.configurable)
       /\ ~(hasOwn(desc, "enumerable") /\ desc.enumerable # cur.enumerable)
       /\ ~(IsAccessorDescriptor(desc) /\ cur.kind = "data")
       /\ ~(IsDataDescriptor(desc) /\ cur.kind = "accessor")
       /\ (cur.kind = "accessor" =>
             ~(hasOwn(desc, "get") /\ desc.get # cur.value))
       /\ (cur.kind = "data" /\ ~cur.writable =>
             /\ ~(hasOwn(desc, "writable") /\ desc.writable)
             /\ ~(hasOwn(desc, "value") /\ ~ObjectIs(desc.value, cur.value)))

\* ValidateAndApplyPropertyDescriptor: the property an accepted definition leaves.
ApplyDescriptor(cur, desc) ==
  LET enum == Field(desc, "enumerable", cur.enumerable)
      conf == Field(desc, "configurable", cur.configurable)
  IN IF IsAccessorDescriptor(desc) /\ cur.kind # "accessor"
     THEN [kind |-> "accessor", value |-> desc.get, writable |-> FALSE,
           enumerable |-> enum, configurable |-> conf]
     ELSE IF cur.kind = "absent" \/ (IsDataDescriptor(desc) /\ cur.kind = "accessor")
     THEN [kind |-> "data", value |-> Field(desc, "value", Undefined),
           writable |-> Field(desc, "writable", FALSE),
           enumerable |-> enum, configurable |-> conf]
     ELSE IF cur.kind = "accessor"
     THEN [cur EXCEPT !.value = Field(desc, "get", @),
                      !.enumerable = enum, !.configurable = conf]
     ELSE [cur EXCEPT !.value = Field(desc, "value", @),
                      !.writable = Field(desc, "writable", @),
                      !.enumerable = enum, !.configurable = conf]

\* ------------------------------------------------------------------ state
VARIABLES
  attrs,            \* attrs[o][p]: the own property p of instance o's target
  observers,        \* observers[o]: o[observersKey], the Observer Set
  callacksQueue,    \* the scheduler's working set
  calledCallbacks,  \* the scheduler's invoked-guard set
  microtasks,       \* flushes queued with promise.then and not yet run
  phase,            \* "idle": no user code runs; "sync": a task is executing
  mounted,          \* mounted[c]: the observables of the component whose re-render trigger is c
  invoked,          \* history: the callbacks invoked since the task began, in order
  via,              \* history: via[c], the instances whose Observer Set enqueued c
  threw,            \* history: the callbacks that threw since the task began
  logged,           \* history: the callbacks whose error console.error logged
  uncaught,         \* history: an error left the flush
  flushes,          \* history: the flushes run since the task began
  due,              \* history: the callbacks subscribed to an instance when it was genuinely mutated
  forced,           \* history: the callbacks subscribed to an instance when forceNotify took it
  unsubscribed,     \* history: the callbacks removed from an Observer Set while enqueued
  stale,            \* history: the callbacks invoked before a later mutation of the same task
  nmut,             \* history: the genuine mutations of the task
  last,             \* history: the operation the task performed last
  unserved,         \* history: the callbacks scheduled since their last invocation began
  first,            \* history: the callbacks of the round in the order of their first enqueue
  tally             \* history: tally[c], the rounds that enqueued c and the invocations of c

vars ==
  <<attrs, observers, callacksQueue, calledCallbacks, microtasks, phase, mounted,
    invoked, via, threw, logged, uncaught, flushes, due, forced, unsubscribed, stale,
    nmut, last, unserved, first, tally>>

\* The part of the state the repository's functions read and write.
World ==
  [attrs |-> attrs, observers |-> observers, callacksQueue |-> callacksQueue,
   calledCallbacks |-> calledCallbacks, microtasks |-> microtasks,
   mounted |-> mounted, invoked |-> invoked, via |-> via, threw |-> threw,
   logged |-> logged,
   unsubscribed |-> unsubscribed, unserved |-> unserved, first |-> first,
   tally |-> tally, nsched |-> 0, ret |-> TRUE, thrown |-> FALSE]

\* ------------------------------------------------- callbacksQueue.ts
\* A flush that calls the callbacks at once, inside the scheduling call.
scheduleCallbacksSync(w, callbackSet) ==
  [w EXCEPT !.invoked = @ \o callbackSet, !.nsched = @ + 1]

\* A flush queued on every call, whether or not one is pending.
scheduleCallbacksEach(w, callbackSet) ==
  [w EXCEPT !.callacksQueue = forEachAdd(@, callbackSet),
            !.microtasks = IF Len(callbackSet) > 0 THEN @ + 1 ELSE @,
            !.nsched = @ + 1]

\* A flush queued for an empty set too.
scheduleCallbacksEmpty(w, callbackSet) ==
  LET noPending == Len(w.callacksQueue) = 0
  IN [w EXCEPT !.callacksQueue = forEachAdd(@, callbackSet),
               !.microtasks = IF noPending THEN @ + 1 ELSE @,
               !.nsched = @ + 1]

\* scheduleCallbacks up to promise.then: the flush is queued, not run.
scheduleCallbacks(w, callbackSet) ==
  LET noPending == Len(w.callacksQueue) = 0
  IN [w EXCEPT !.callacksQueue = forEachAdd(@, callbackSet),
               !.microtasks = IF noPending /\ Len(callbackSet) > 0 THEN @ + 1 ELSE @,
               !.nsched = @ + 1]

\* scheduleCallbacks(target[observersKey]). History: via records the instance
\* that enqueued each callback, and a callback enqueued again is no longer one
\* that was only unsubscribed; unserved, first and tally record the callbacks the
\* call was given, those among them new to the round in the order given, and
\* one more round for each of these.
Bump(n) == IF n < MaxRounds THEN n + 1 ELSE n

scheduleObservers(w, o) ==
  LET given == w.observers[o]
      new == SelectSeq(given, LAMBDA c : c \notin Range(w.first))
  IN scheduleCallbacks(
       [w EXCEPT !.via = [c \in CB |-> IF c \in Range(given)
                                        THEN @[c] \cup {o} ELSE @[c]],
                 !.unsubscribed = @ \ Range(given),
                 !.unserved = @ \cup Range(given),
                 !.first = @ \o new,
                 !.tally = [c \in CB |-> IF c \in Range(new)
                                          THEN [@[c] EXCEPT !.rounds = Bump(@)]
                                          ELSE @[c]]],
       given)

\* ------------------------------------------------- index.tsx: proxyTraps
\* Reflect.defineProperty(target, prop, descriptor)
ReflectDefineProperty(w, o, p, desc) ==
  LET cur == w.attrs[o][p]
      ok == ValidateDescriptor(cur, desc)
  IN [w EXCEPT !.attrs[o][p] = IF ok THEN ApplyDescriptor(cur, desc) ELSE @,
               !.ret = ok]

\* A trap that notifies on every value definition, changed or not.
definePropertyAlways(w, o, p, descriptor) ==
  ReflectDefineProperty(
    IF hasOwn(descriptor, "value") THEN scheduleObservers(w, o) ELSE w,
    o, p, descriptor)

defineProperty(w, o, p, descriptor) ==
  ReflectDefineProperty(
    IF hasOwn(descriptor, "value")
       /\ ~ObjectIs(Get(w.attrs[o][p]), descriptor.value)
    THEN scheduleObservers(w, o) ELSE w,
    o, p, descriptor)

\* Reflect.set(target, prop, newValue, receiver), the receiver being the proxy:
\* an accepted write ends in receiver.[[DefineOwnProperty]], the trap above.
ReflectSet(w, o, p, newValue) ==
  LET own == w.attrs[o][p]
  IN IF own.kind = "accessor" \/ (own.kind = "data" /\ ~own.writable)
     THEN [w EXCEPT !.ret = FALSE]
     ELSE IF own.kind = "data"
     THEN defineProperty(w, o, p, [value |-> newValue])
     ELSE defineProperty(w, o, p,
            [value |-> newValue, writable |-> TRUE, enumerable |-> TRUE,
             configurable |-> TRUE])

set(w, o, p, newValue) ==
  ReflectSet(
    IF ~ObjectIs(Get(w.attrs[o][p]), newValue) THEN scheduleObservers(w, o) ELSE w,
    o, p, newValue)

\* Reflect.deleteProperty(target, prop)
ReflectDeleteProperty(w, o, p) ==
  LET cur == w.attrs[o][p]
  IN IF cur.kind = "absent" \/ cur.configurable
     THEN [w EXCEPT !.attrs[o][p] = Absent, !.ret = TRUE]
     ELSE [w EXCEPT !.ret = FALSE]

\* A trap that asks whether the key exists instead of reading its value.
deletePropertyOwn(w, o, p) ==
  ReflectDeleteProperty(
    IF w.attrs[o][p].kind # "absent" THEN scheduleObservers(w, o) ELSE w, o, p)

deleteProperty(w, o, p) ==
  ReflectDeleteProperty(
    IF ~StrictEquals(Get(w.attrs[o][p]), Undefined)
    THEN scheduleObservers(w, o) ELSE w,
    o, p)

\* ------------------------------------------------- index.tsx: reading
\* The key of the Observer Set, were it a string instead of a symbol.
observersKeyString == [key |-> "observable_observersKey_v1", symbol |-> FALSE]

\* Symbol.for("observable_observersKey_v1")
observersKey == [key |-> "observable_observersKey_v1", symbol |-> TRUE]

\* The order in which own string keys are listed.
PropOrder == <<"prop1", "prop2">>

StringKey(p) == [key |-> p, symbol |-> FALSE]

\* The Observer Set as the value of an own property, the class field of
\* Observable: a Set object.
ObserversField ==
  [kind |-> "data", value |-> "Set", writable |-> TRUE, enumerable |-> TRUE,
   configurable |-> TRUE]

\* An object as the meta-operations see it: its own keys, strings before
\* symbols, and the property under each key.
Object(keys, slots) == [keys |-> keys, slots |-> slots]

\* The target of instance o. The proxy defines no get, has, ownKeys or
\* getOwnPropertyDescriptor trap: these operations reach the target as it is.
Target(w, o) ==
  LET own == SelectSeq(PropOrder, LAMBDA p : w.attrs[o][p].kind # "absent")
      props == [i \in 1..Len(own) |-> StringKey(own[i])]
      keys == IF observersKey.symbol THEN props \o <<observersKey>>
              ELSE <<observersKey>> \o props
  IN Object(keys,
            [k \in Range(keys) |->
               IF k = observersKey THEN ObserversField ELSE w.attrs[o][k.key]])

\* obs.prop: no get trap, the value is read from the target.
get(w, o, p) == [w EXCEPT !.ret = Get(w.attrs[o][p])]

\* EnumerableOwnProperties(obj, key): the enumerable own string keys.
EnumerableOwnKeys(obj) ==
  SelectSeq(obj.keys, LAMBDA k : ~k.symbol /\ obj.slots[k].enumerable)

\* Object.keys(obs)
ObjectKeys(w, o) ==
  LET keys == EnumerableOwnKeys(Target(w, o))
  IN [w EXCEPT !.ret = [i \in 1..Len(keys) |-> keys[i].key]]

\* SerializeJSONProperty of a value: undefined has no text, a number that is
\* not finite is null, both zeros are 0, a Set has no enumerable property.
SerializeJSONProperty(v) ==
  CASE v = Undefined -> Undefined
    [] v = "NaN" -> "null"
    [] v \in {"+0", "-0"} -> "0"
    [] v = "Set" -> "{}"
    [] OTHER -> v

\* SerializeJSONObject: the members in key order, those without text left out.
SerializeJSONObject(obj) ==
  LET keys == SelectSeq(EnumerableOwnKeys(obj),
                        LAMBDA k : SerializeJSONProperty(Get(obj.slots[k])) # Undefined)
  IN [i \in 1..Len(keys) |->
        <<keys[i].key, SerializeJSONProperty(Get(obj.slots[keys[i]]))>>]

\* JSON.stringify(obs)
JSONstringify(w, o) == [w EXCEPT !.ret = SerializeJSONObject(Target(w, o))]

\* ------------------------------------------------- index.tsx: functions
\* The message of the TypeError thrown, "" when the arguments pass.
observablesArgsCheck(fnName, observables) ==
  IF Len(observables) = 0 THEN "was called without observables"
  ELSE IF \E i \in 1..Len(observables) : observables[i] = NonObservable
  THEN "was called with non-observables"
  ELSE ""

RECURSIVE forOfSchedule(_, _)
forOfSchedule(w, observables) ==
  IF observables = <<>> THEN w
  ELSE forOfSchedule(scheduleObservers(w, Head(observables)), Tail(observables))

\* A check made instance by instance, inside the loop.
RECURSIVE forceNotifyLate(_, _)
forceNotifyLate(w, observables) ==
  IF observables = <<>> THEN w
  ELSE IF Head(observables) = NonObservable THEN [w EXCEPT !.thrown = TRUE]
  ELSE forceNotifyLate(scheduleObservers(w, Head(observables)), Tail(observables))

\* A forceNotify that notifies the first instance only.
forceNotifyFirst(w, observables) ==
  IF observablesArgsCheck("forceNotify", observables) # ""
  THEN [w EXCEPT !.thrown = TRUE]
  ELSE scheduleObservers(w, Head(observables))

forceNotify(w, observables) ==
  IF observablesArgsCheck("forceNotify", observables) # ""
  THEN [w EXCEPT !.thrown = TRUE]
  ELSE forOfSchedule(w, observables)

\* observables.forEach((o) => o[observersKey].add(forceUpdate))
forEachAddObserver(obsSets, observables, forceUpdate) ==
  [o \in Obs |-> IF o \in Range(observables)
                 THEN SetAdd(obsSets[o], forceUpdate) ELSE obsSets[o]]

\* A cleanup that leaves after the first instance.
forEachDeleteFirst(obsSets, observables, forceUpdate) ==
  [o \in Obs |-> IF observables # <<>> /\ o = Head(observables)
                 THEN SetDelete(obsSets[o], forceUpdate) ELSE obsSets[o]]

\* observables.forEach((o) => o[observersKey].delete(forceUpdate))
forEachDeleteObserver(obsSets, observables, forceUpdate) ==
  [o \in Obs |-> IF o \in Range(observables)
                 THEN SetDelete(obsSets[o], forceUpdate) ELSE obsSets[o]]

\* useObservables with its effect run: the component has mounted.
useObservables(w, forceUpdate, observables) ==
  IF observablesArgsCheck("useObservables", observables) # ""
  THEN [w EXCEPT !.thrown = TRUE]
  ELSE [w EXCEPT !.observers = forEachAddObserver(@, observables, forceUpdate),
                 !.mounted[forceUpdate] = observables]

\* The effect's cleanup: the component unmounts.
effectCleanup(w, forceUpdate) ==
  [w EXCEPT !.observers =
              forEachDeleteObserver(@, w.mounted[forceUpdate], forceUpdate),
            !.mounted[forceUpdate] = <<>>]

\* ------------------------------------------------- statements of user code
\* obs.prop = v in strict code: a trap that returns false throws a TypeError.
Assign(w, o, p, v) ==
  LET w1 == set(w, o, p, v) IN [w1 EXCEPT !.thrown = ~w1.ret]

\* Object.defineProperty(obs, prop, desc)
ObjectDefineProperty(w, o, p, desc) ==
  LET w1 == defineProperty(w, o, p, desc) IN [w1 EXCEPT !.thrown = ~w1.ret]

\* delete obs.prop in strict code
DeleteOperator(w, o, p) ==
  LET w1 == deleteProperty(w, o, p) IN [w1 EXCEPT !.thrown = ~w1.ret]

\* ------------------------------------------------- index.tsx: Observable
\* The constructor of Observable, called for new.target: the base class
\* refuses; otherwise the target gets an empty Observer Set and the proxy over
\* it is the instance, which the name o stands for from now on.
Observable(w, o, newTarget) ==
  IF newTarget = "Observable" THEN [w EXCEPT !.thrown = TRUE]
  ELSE [w EXCEPT !.attrs[o] = [p \in Props |-> Absent], !.observers[o] = <<>>]

\* The field initialisers of the subclass run on the proxy super() returned,
\* as definitions or as assignments, whichever the build emits.
RECURSIVE initFields(_, _, _, _)
initFields(w, o, fields, emit) ==
  IF fields = <<>> \/ w.thrown THEN w
  ELSE initFields(
         IF emit = "define"
         THEN ObjectDefineProperty(w, o, Head(fields)[1],
                [value |-> Head(fields)[2], writable |-> TRUE,
                 enumerable |-> TRUE, configurable |-> TRUE])
         ELSE Assign(w, o, Head(fields)[1], Head(fields)[2]),
         o, Tail(fields), emit)

\* new C(), C being Observable itself or a subclass with these fields.
new(w, o, newTarget, fields, emit) ==
  LET w1 == Observable(w, o, newTarget)
  IN IF w1.thrown THEN w1 ELSE initFields(w1, o, fields, emit)

\* callback(). History: the call, and whether it threw.
invoke(w, callback, body) ==
  LET w1 == [w EXCEPT !.invoked = Append(@, callback),
                      !.unserved = @ \ {callback},
                      !.tally[callback].calls = Bump(@)]
      w2 == CASE body.op = "return" -> w1
              [] body.op = "throw" -> [w1 EXCEPT !.thrown = TRUE]
              [] body.op = "forceNotify" -> forceNotify(w1, <<body.o>>)
              [] body.op = "set" -> Assign(w1, body.o, body.p, body.v)
  IN IF w2.thrown THEN [w2 EXCEPT !.threw = @ \cup {callback}] ELSE w2

\* A callCallback that skips a callback no instance holds any longer.
callCallbackLive(w, callback, body) ==
  IF callback \in w.calledCallbacks
     \/ \A o \in Obs : callback \notin Range(w.observers[o])
  THEN w
  ELSE LET w1 == invoke([w EXCEPT !.calledCallbacks = @ \cup {callback}],
                        callback, body)
       IN IF w1.thrown
          THEN [w1 EXCEPT !.thrown = FALSE, !.logged = @ \cup {callback}]
          ELSE w1

\* callCallback without its try/catch.
callCallbackNoCatch(w, callback, body) ==
  IF callback \in w.calledCallbacks THEN w
  ELSE invoke([w EXCEPT !.calledCallbacks = @ \cup {callback}], callback, body)

callCallback(w, callback, body) ==
  IF callback \in w.calledCallbacks THEN w
  ELSE LET w1 == invoke([w EXCEPT !.calledCallbacks = @ \cup {callback}],
                        callback, body)
       IN IF w1.thrown
          THEN [w1 EXCEPT !.thrown = FALSE, !.logged = @ \cup {callback}]
          ELSE w1

\* callacksQueue.forEach(callCallback) from position i on: members added while
\* the iteration runs are visited; an error that escapes ends the iteration.
RECURSIVE forEachCall(_, _, _)
forEachCall(w, i, bodies) ==
  IF i > Len(w.callacksQueue) \/ w.thrown THEN w
  ELSE forEachCall(
         callCallback(w, w.callacksQueue[i], bodies[w.callacksQueue[i]]),
         i + 1, bodies)

\* A flush that reads the Observer Sets again: every callback now subscribed
\* next to a queued one joins the round.
flushLive(w, bodies) ==
  LET queued == Range(w.callacksQueue)
      live == {c \in CB : \E o \in Obs :
                 c \in Range(w.observers[o]) /\ Range(w.observers[o]) \cap queued # {}}
      late == SelectSeq([c \in 1..NumCB |-> c], LAMBDA c : c \in live \ queued)
      w1 == forEachCall([w EXCEPT !.callacksQueue = @ \o late], 1, bodies)
  IN IF w1.thrown THEN w1
     ELSE [w1 EXCEPT !.calledCallbacks = {}, !.callacksQueue = <<>>]

\* A flush that forgets callacksQueue.clear().
flushKeepsQueue(w, bodies) ==
  LET w1 == forEachCall(w, 1, bodies)
  IN IF w1.thrown THEN w1 ELSE [w1 EXCEPT !.calledCallbacks = {}]

\* A flush that forgets the guard between two passes over the queue, for the
\* callbacks scheduled during the first.
flushTwice(w, bodies) ==
  LET w1 == forEachCall(w, 1, bodies)
      w2 == IF w1.thrown THEN w1
            ELSE forEachCall([w1 EXCEPT !.calledCallbacks = {}], 1, bodies)
  IN IF w2.thrown THEN w2
     ELSE [w2 EXCEPT !.calledCallbacks = {}, !.callacksQueue = <<>>]

\* A flush that forgets calledCallbacks.clear().
flushKeepsGuard(w, bodies) ==
  LET w1 == forEachCall(w, 1, bodies)
  IN IF w1.thrown THEN w1 ELSE [w1 EXCEPT !.callacksQueue = <<>>]

\* The function handed to promise.then.
flush(w, bodies) ==
  LET w1 == forEachCall(w, 1, bodies)
  IN IF w1.thrown THEN w1
     ELSE [w1 EXCEPT !.calledCallbacks = {}, !.callacksQueue = <<>>]

\* ------------------------------------------------------------------ steps
None == [op |-> "none"]

\* Property descriptors user code passes to Object.defineProperty.
Descs(VS) ==
  {[value |-> v] : v \in VS}
    \cup {[value |-> v, writable |-> TRUE, enumerable |-> TRUE,
           configurable |-> TRUE] : v \in VS}
    \cup {[get |-> v] : v \in VS}
    \cup {[get |-> v, enumerable |-> TRUE, configurable |-> TRUE] : v \in VS}
    \cup {[writable |-> FALSE]}

\* Argument lists of forceNotify and useObservables.
ArgLists ==
  UNION {[1..n -> Obs \cup {NonObservable}] : n \in 0..MaxArgs}

ValidArgLists == {args \in ArgLists : args # <<>> /\ NonObservable \notin Range(args)}

\* class O extends Observable { prop1 = 1 }: nobody observes a new instance.
Init ==
  /\ attrs = [o \in Obs |-> [p \in Props |->
                IF p = "prop1"
                THEN [kind |-> "data", value |-> "1", writable |-> TRUE,
                      enumerable |-> TRUE, configurable |-> TRUE]
                ELSE Absent]]
  /\ observers = [o \in Obs |-> <<>>]
  /\ callacksQueue = <<>>
  /\ calledCallbacks = {}
  /\ microtasks = 0
  /\ phase = "idle"
  /\ mounted = [c \in CB |-> <<>>]
  /\ invoked = <<>>
  /\ via = [c \in CB |-> {}]
  /\ threw = {}
  /\ logged = {}
  /\ uncaught = FALSE
  /\ flushes = 0
  /\ due = {}
  /\ forced = {}
  /\ unsubscribed = {}
  /\ stale = {}
  /\ nmut = 0
  /\ last = None
  /\ unserved = {}
  /\ first = <<>>
  /\ tally = [c \in CB |-> [rounds |-> 0, calls |-> 0]]

\* The state the repository's functions left. H names the history variables the
\* specification keeps; the others stay as Init set them.
Commit(w, H) ==
  /\ attrs' = w.attrs
  /\ observers' = w.observers
  /\ callacksQueue' = w.callacksQueue
  /\ calledCallbacks' = w.calledCallbacks
  /\ microtasks' = w.microtasks
  /\ mounted' = w.mounted
  /\ invoked' = w.invoked
  /\ threw' = w.threw
  /\ logged' = w.logged
  /\ via' = IF "via" \in H THEN w.via ELSE via
  /\ unsubscribed' = IF "unsubscribed" \in H THEN w.unsubscribed ELSE unsubscribed
  /\ unserved' = IF "unserved" \in H THEN w.unserved ELSE unserved
  /\ first' = IF "first" \in H THEN w.first ELSE first
  /\ tally' = IF "tally" \in H THEN w.tally ELSE tally

Touched(w) ==
  <<w.attrs, w.observers, w.callacksQueue, w.calledCallbacks, w.microtasks, w.mounted>>
    # <<attrs, observers, callacksQueue, calledCallbacks, microtasks, mounted>>

\* A step of user code that left w. History: genuine says whether the step
\* changed an attribute in the documentation's sense (a write of a different
\* value, a delete of an attribute holding a value, a definition of a different
\* value), owed are the callbacks subscribed to the instance it changed, took
\* those subscribed to the instances forceNotify was given, r describes the step.
Done(w, H, genuine, owed, took, r) ==
  /\ Commit(w, H)
  /\ due' = IF "due" \in H /\ genuine THEN due \cup owed ELSE due
  /\ nmut' = IF "nmut" \in H /\ genuine /\ nmut < MaxMut THEN nmut + 1 ELSE nmut
  /\ forced' = IF "forced" \in H THEN forced \cup took ELSE forced
  /\ stale' = IF w.attrs # attrs THEN stale \cup Range(w.invoked) ELSE stale
  /\ last' = IF "last" \in H THEN r ELSE None
  /\ UNCHANGED <<phase, uncaught, flushes>>

\* A step of user code that reads: it left w and returned w.ret.
Read(w, H, r) ==
  Done(w, H, FALSE, {}, {},
       [r EXCEPT !.ret = w.ret, !.nsched = w.nsched, !.touched = Touched(w)])

\* A task begins: user code runs from here to EndTask without interruption.
BeginTask ==
  /\ phase = "idle"
  /\ microtasks = 0
  /\ phase' = "sync"
  /\ invoked' = <<>>
  /\ via' = [c \in CB |-> {}]
  /\ threw' = {}
  /\ logged' = {}
  /\ uncaught' = FALSE
  /\ flushes' = 0
  /\ due' = {}
  /\ forced' = {}
  /\ unsubscribed' = {}
  /\ stale' = {}
  /\ nmut' = 0
  /\ last' = None
  /\ first' = <<>>
  /\ UNCHANGED <<attrs, observers, callacksQueue, calledCallbacks, microtasks, mounted,
                 unserved, tally>>

\* The task returns; the microtask queue is drained next.
EndTask ==
  /\ phase = "sync"
  /\ phase' = "idle"
  /\ last' = None
  /\ UNCHANGED <<attrs, observers, callacksQueue, calledCallbacks, microtasks,
                 mounted, invoked, via, threw, logged, uncaught, flushes, due,
                 forced,
                 unsubscribed, stale, nmut, unserved, first, tally>>

\* obs.prop = v
Write(o, p, v, H) ==
  /\ phase = "sync"
  /\ LET w == Assign(World, o, p, v)
     IN Done(w, H, Get(attrs[o][p]) # v, Range(observers[o]), {},
             [op |-> "set", o |-> o, p |-> p, v |-> v, before |-> attrs[o][p],
              nsched |-> w.nsched, error |-> w.thrown])

\* Object.defineProperty(obs, prop, desc)
Define(o, p, desc, H) ==
  /\ phase = "sync"
  /\ LET w == ObjectDefineProperty(World, o, p, desc)
     IN Done(w, H, hasOwn(desc, "value") /\ Get(attrs[o][p]) # desc.value,
             Range(observers[o]), {},
             [op |-> "define", o |-> o, p |-> p, desc |-> desc,
              before |-> attrs[o][p], nsched |-> w.nsched, error |-> w.thrown])

\* delete obs.prop
Delete(o, p, H) ==
  /\ phase = "sync"
  /\ LET w == DeleteOperator(World, o, p)
     IN Done(w, H, Get(attrs[o][p]) # Undefined, Range(observers[o]), {},
             [op |-> "delete", o |-> o, p |-> p, before |-> attrs[o][p],
              nsched |-> w.nsched, error |-> w.thrown])

\* obs.prop
ReadAttribute(o, p, H) ==
  /\ phase = "sync"
  /\ Read(get(World, o, p), H,
          [op |-> "get", o |-> o, p |-> p, ret |-> 0, nsched |-> 0, touched |-> FALSE])

\* Object.keys(obs)
EnumerateKeys(o, H) ==
  /\ phase = "sync"
  /\ Read(ObjectKeys(World, o), H,
          [op |-> "keys", o |-> o, ret |-> 0, nsched |-> 0, touched |-> FALSE])

\* JSON.stringify(obs)
Serialize(o, H) ==
  /\ phase = "sync"
  /\ Read(JSONstringify(World, o), H,
          [op |-> "stringify", o |-> o, ret |-> 0, nsched |-> 0, touched |-> FALSE])

\* obs = new C()
New(o, newTarget, fields, emit, H) ==
  /\ phase = "sync"
  /\ LET w == new(World, o, newTarget, fields, emit)
     IN Done(w, H, FALSE, {}, {},
             [op |-> "new", o |-> o, newTarget |-> newTarget, fields |-> fields,
              nsched |-> w.nsched, error |-> w.thrown, touched |-> Touched(w),
              round |-> <<w.callacksQueue, w.calledCallbacks, w.microtasks>>
                          # <<callacksQueue, calledCallbacks, microtasks>>])

\* forceNotify(...args)
ForceNotify(args, H) ==
  /\ phase = "sync"
  /\ LET w == forceNotify(World, args)
     IN Done(w, H, FALSE, {},
             IF args \in ValidArgLists
             THEN UNION {Range(observers[o]) : o \in Range(args)} ELSE {},
             [op |-> "forceNotify", args |-> args, nsched |-> w.nsched,
              error |-> w.thrown, touched |-> Touched(w)])

\* A component calls useObservables(...args) in its render and, when that
\* returned, its effect runs: c is the component's re-render trigger.
Mount(c, args, H) ==
  /\ phase = "sync"
  /\ mounted[c] = <<>>
  /\ \A o \in Obs : c \notin Range(observers[o])
  /\ LET w == useObservables(World, c, args)
     IN Done(w, H, FALSE, {}, {},
             [op |-> "useObservables", args |-> args, c |-> c,
              nsched |-> w.nsched, error |-> w.thrown, touched |-> Touched(w)])

\* The component unmounts: the effect's cleanup runs. History: c was removed
\* from the Observer Set of an instance that had enqueued it.
Unmount(c, H) ==
  /\ phase = "sync"
  /\ mounted[c] # <<>>
  /\ LET w == effectCleanup(World, c)
         gone == c \in Range(callacksQueue) /\ via[c] \cap Range(mounted[c]) # {}
     IN Done([w EXCEPT !.unsubscribed = IF gone THEN @ \cup {c} ELSE @],
             H, FALSE, {}, {}, [op |-> "unmount", c |-> c])

\* obs[observersKey].add(observer), by code that holds the callback.
Subscribe(o, c, H) ==
  /\ phase = "sync"
  /\ mounted[c] = <<>>
  /\ Done([World EXCEPT !.observers[o] = SetAdd(@, c)],
          H, FALSE, {}, {}, [op |-> "add", o |-> o, c |-> c])

\* obs[observersKey].delete(observer)
Unsubscribe(o, c, H) ==
  /\ phase = "sync"
  /\ mounted[c] = <<>>
  /\ c \in Range(observers[o])
  /\ LET gone == c \in Range(callacksQueue) /\ o \in via[c]
     IN Done([World EXCEPT !.observers[o] = SetDelete(@, c),
                           !.unsubscribed = IF gone THEN @ \cup {c} ELSE @],
             H, FALSE, {}, {}, [op |-> "delete observer", o |-> o, c |-> c])

\* The microtask queued by promise.then runs; bodies says what each callback does.
Flush(bodies, H) ==
  /\ phase = "idle"
  /\ microtasks > 0
  /\ LET w == flush([World EXCEPT !.microtasks = @ - 1], bodies)
     IN /\ Commit(w, H)
        /\ uncaught' = (uncaught \/ w.thrown)
  /\ flushes' = flushes + 1
  /\ UNCHANGED <<phase, due, forced, stale, nmut, last>>

\* ------------------------------------------------------- specifications
\* User code mutates attributes PS of instances OS: it writes values VS and
\* defines with descriptors DS.
Mutate(OS, PS, VS, DS, H) ==
  \/ \E o \in OS, p \in PS, v \in VS : Write(o, p, v, H)
  \/ \E o \in OS, p \in PS, d \in DS : Define(o, p, d, H)
  \/ \E o \in OS, p \in PS : Delete(o, p, H)

\* User code adds callbacks CS to the Observer Sets of OS and removes them.
Observe(OS, CS, H) ==
  \/ \E o \in OS, c \in CS : Subscribe(o, c, H)
  \/ \E o \in OS, c \in CS : Unsubscribe(o, c, H)

\* Components mount and unmount.
Hooks(AS, H) ==
  \/ \E c \in CB, args \in AS : Mount(c, args, H)
  \/ \E c \in CB : Unmount(c, H)

\* Definitions that leave a writable, configurable attribute, as a class field does.
FieldDescs(VS) ==
  {[value |-> v, writable |-> TRUE, enumerable |-> TRUE, configurable |-> TRUE] :
     v \in VS}

\* What the callbacks of the scheduling specifications do: return, throw,
\* forceNotify an instance or write an attribute.
SchedBodies ==
  {[op |-> "return"], [op |-> "throw"]}
    \cup {[op |-> "forceNotify", o |-> o] : o \in Obs}
    \cup {[op |-> "set", o |-> o, p |-> "prop1", v |-> "2"] : o \in Obs}

\* Scheduling: attribute prop1 of every instance, ordinary values, observers
\* added and removed by hand, forceNotify with valid arguments, callbacks that
\* themselves notify and write. H names the histories kept.
Sched(H) ==
  \/ BeginTask
  \/ EndTask
  \/ Mutate(Obs, {"prop1"}, {"1", "2"}, FieldDescs({"1"}), H)
  \/ \E args \in ValidArgLists : ForceNotify(args, H)
  \/ Observe(Obs, CB, H)
  \/ \E bodies \in [CB -> SchedBodies] : Flush(bodies, H)

\* The instance that enqueued each callback is kept.
Next == Sched({"via"})

Spec == Init /\ [][Next]_vars

\* Batching: as Sched without forceNotify, and the first instance has two
\* attributes; the genuine mutations and the callbacks they owe are kept.
NextBatch ==
  \/ BeginTask
  \/ EndTask
  \/ Mutate(Obs, {"prop1"}, {"1", "2"}, FieldDescs({"1"}), {"due", "nmut"})
  \/ Mutate({1}, {"prop2"}, {"1", "2"}, FieldDescs({"1"}), {"due", "nmut"})
  \/ Observe(Obs, CB, {"due", "nmut"})
  \/ \E bodies \in [CB -> SchedBodies] : Flush(bodies, {"due", "nmut"})

SpecBatch == Init /\ [][NextBatch]_vars

\* The callbacks forceNotify owes and the genuine mutations are kept.
NextForce == Sched({"forced", "nmut"})

SpecForce == Init /\ [][NextForce]_vars

\* Unsubscribing: writes, observers added and removed by hand and by
\* components that mount and unmount.
NextUnsub ==
  \/ BeginTask
  \/ EndTask
  \/ \E o \in Obs, v \in {"1", "2"} : Write(o, "prop1", v, {"via", "unsubscribed"})
  \/ Observe(Obs, CB, {"via", "unsubscribed"})
  \/ Hooks({<<o>> : o \in Obs}, {"via", "unsubscribed"})
  \/ \E bodies \in [CB -> {[op |-> "return"], [op |-> "throw"]}] :
       Flush(bodies, {"via", "unsubscribed"})

SpecUnsub == Init /\ [][NextUnsub]_vars

\* The traps: attribute prop1 of the first instance, every value and
\* descriptor, each step recorded in last.
NextTraps ==
  \/ BeginTask
  \/ EndTask
  \/ Mutate({1}, {"prop1"}, Values, Descs(Values), {"last"})
  \/ Observe({1}, CB, {"last"})
  \/ \E bodies \in [CB -> {[op |-> "return"]}] : Flush(bodies, {"last"})

SpecTraps == Init /\ [][NextTraps]_vars

\* Arguments: forceNotify and useObservables with every argument list.
NextArgs ==
  \/ BeginTask
  \/ EndTask
  \/ \E o \in Obs : Write(o, "prop1", "2", {"last"})
  \/ \E args \in ArgLists : ForceNotify(args, {"last"})
  \/ Hooks(ArgLists, {"last"})
  \/ \E bodies \in [CB -> {[op |-> "return"]}] : Flush(bodies, {"last"})

SpecArgs == Init /\ [][NextArgs]_vars

\* Reading: both attributes of the first instance are written, defined (as a
\* field, as a hidden value, as a getter) and deleted, and every instance is
\* read, enumerated and serialized.
ReadDescs ==
  FieldDescs({"1"}) \cup {[value |-> "2"]}
    \cup {[get |-> "3", enumerable |-> TRUE, configurable |-> TRUE]}

NextRead ==
  \/ BeginTask
  \/ EndTask
  \/ Mutate({1}, Props, {Undefined, "NaN", "-0"}, ReadDescs, {"last"})
  \/ Observe({1}, {1}, {"last"})
  \/ \E o \in Obs, p \in Props : ReadAttribute(o, p, {"last"})
  \/ \E o \in Obs : EnumerateKeys(o, {"last"})
  \/ \E o \in Obs : Serialize(o, {"last"})
  \/ \E bodies \in [CB -> {[op |-> "return"]}] : Flush(bodies, {"last"})

SpecRead == Init /\ [][NextRead]_vars

\* Construction: instances are made anew, of the base class and of subclasses
\* with no, one and two fields, while others are observed by one callback and
\* written.
FieldLists ==
  {<<>>, << <<"prop1", "1">> >>, << <<"prop1", Undefined>>, <<"prop2", "2">> >>}

NextNew ==
  \/ BeginTask
  \/ EndTask
  \/ \E o \in Obs, newTarget \in {"Observable", "O"}, fields \in FieldLists,
        emit \in {"define", "assign"} : New(o, newTarget, fields, emit, {"last"})
  \/ \E o \in Obs : Write(o, "prop1", "2", {"last"})
  \/ Observe(Obs, {1}, {"last"})
  \/ \E bodies \in [CB -> {[op |-> "return"]}] : Flush(bodies, {"last"})

SpecNew == Init /\ [][NextNew]_vars

\* The callbacks scheduled and not invoked since are kept.
NextServe == Sched({"unserved"})

SpecServe == Init /\ [][NextServe]_vars

\* Rounds: writes to both instances, observers added and removed by hand,
\* callbacks that return, throw or notify; the order of first enqueue, the
\* instances that enqueued and the count of rounds and invocations are kept.
RoundBodies ==
  {[op |-> "return"], [op |-> "throw"]} \cup {[op |-> "forceNotify", o |-> o] : o \in Obs}

NextRounds ==
  \/ BeginTask
  \/ EndTask
  \/ \E o \in Obs, v \in {"1", "2"} : Write(o, "prop1", v, {"first", "tally", "via"})
  \/ Observe(Obs, CB, {"first", "tally", "via"})
  \/ \E bodies \in [CB -> RoundBodies] : Flush(bodies, {"first", "tally", "via"})

SpecRounds == Init /\ [][NextRounds]_vars

\* ------------------------------------------------------------------ claims
\* No user code runs and no flush is queued.
Quiescent == phase = "idle" /\ microtasks = 0

\* A flush has run since the task began.
Flushed == phase = "idle" /\ flushes >= 1

Once(c) == Count(invoked, c) = 1

\* C1: after a synchronous execution with one or more genuine mutations of
\* instances that had subscribers, exactly one flush is queued and then run,
\* and every callback that was subscribed to a mutated instance runs exactly
\* once in it, however many instances and attributes changed.
C1_OneFlushEachOnce ==
  due # {} =>
    /\ microtasks + flushes = 1
    /\ phase = "sync" => flushes = 0
    /\ flushes = 1 => \A c \in due : Once(c)

\* Two callbacks owed by at least MaxMut mutations, and the flush has run.
C1_Witness ==
  /\ Quiescent
  /\ flushes = 1
  /\ nmut >= 2
  /\ Cardinality(due) >= 2
  /\ \A c \in due : Once(c)
  /\ attrs[1]["prop2"].kind = "data"

\* C2: a callback enqueued through the Observer Sets of two or more instances
\* is invoked exactly once in the round.
C2_OncePerRound ==
  Flushed => \A c \in CB : Cardinality(via[c]) >= 2 => Once(c)

C2_Witness ==
  /\ Flushed
  /\ \E c \in CB : via[c] = Obs /\ Once(c)
  /\ Len(invoked) >= 2

\* C3: no callback is invoked while the task runs; a write is applied before
\* the next statement of the task; so no invoked callback has missed a later
\* mutation of the task that scheduled it.
C3_FlushAfterTask ==
  /\ phase = "sync" => invoked = <<>>
  /\ stale = {}
  /\ last.op = "set" /\ ~last.error =>
       phase = "sync" /\ Get(attrs[last.o][last.p]) = last.v

\* A write was applied and has scheduled a flush that has not run.
C3_Witness ==
  /\ last.op = "set"
  /\ ~last.error
  /\ last.nsched > 0
  /\ Get(last.before) # last.v
  /\ callacksQueue # <<>>
  /\ microtasks = 1
  /\ invoked = <<>>

\* What a write, a delete or a definition found and left.
Before == last.before
Now == attrs[last.o][last.p]

\* C4 as stated: a write of the same value never schedules, a write of a
\* different value always does, and the write is applied in both cases.
C4_AsStated ==
  last.op = "set" =>
    /\ last.nsched = 0 <=> Get(Before) = last.v
    /\ Get(Now) = last.v

\* C4 amended: ... and the write is applied unless the attribute is a
\* non-writable value or an accessor without a setter; then the write is
\* rejected with a TypeError and the attribute is left as it was.
C4_SetSchedulesOnChange ==
  last.op = "set" =>
    /\ last.nsched = 0 <=> Get(Before) = last.v
    /\ IF Before.kind = "absent" \/ (Before.kind = "data" /\ Before.writable)
       THEN ~last.error /\ Now.kind = "data" /\ Now.value = last.v
       ELSE last.error /\ Now = Before

\* NaN written over NaN, observed: nothing is scheduled.
C4_Witness ==
  /\ last.op = "set"
  /\ last.v = "NaN"
  /\ Get(Before) = "NaN"
  /\ Before.kind = "data" /\ Before.writable
  /\ observers[last.o] # <<>>
  /\ last.nsched = 0
  /\ Now.value = "NaN"

\* C5 as stated: deleting an attribute whose value is undefined does not
\* schedule; deleting one that holds another value schedules and removes it.
C5_AsStated ==
  last.op = "delete" =>
    IF Get(Before) = Undefined THEN last.nsched = 0
    ELSE last.nsched > 0 /\ Now = Absent

\* C5 amended: ... schedules and removes it, unless the attribute is not
\* configurable; then the deletion is rejected with a TypeError and the
\* attribute is left as it was.
C5_DeleteSchedulesOnValue ==
  last.op = "delete" =>
    /\ last.nsched = 0 <=> Get(Before) = Undefined
    /\ IF Before.kind = "absent" \/ Before.configurable
       THEN ~last.error /\ Now = Absent
       ELSE last.error /\ Now = Before

C5_Witness ==
  /\ last.op = "delete"
  /\ Get(Before) # Undefined
  /\ Before.configurable
  /\ observers[last.o] # <<>>
  /\ last.nsched > 0
  /\ Now = Absent

\* Every field of the descriptor is what the attribute now has.
Applied(slot, desc) ==
  /\ hasOwn(desc, "value") => slot.kind = "data" /\ slot.value = desc.value
  /\ hasOwn(desc, "get") => slot.kind = "accessor" /\ slot.value = desc.get
  /\ hasOwn(desc, "writable") => slot.kind = "data" /\ slot.writable = desc.writable
  /\ hasOwn(desc, "enumerable") => slot.enumerable = desc.enumerable
  /\ hasOwn(desc, "configurable") => slot.configurable = desc.configurable

DefinesNewValue ==
  hasOwn(last.desc, "value") /\ last.desc.value # Get(Before)

\* C6 as stated: a definition schedules iff it carries a value that differs
\* from the current one, never when it installs a getter, and it is applied
\* in every case.
C6_AsStated ==
  last.op = "define" =>
    /\ last.nsched > 0 <=> DefinesNewValue
    /\ hasOwn(last.desc, "get") => last.nsched = 0
    /\ Applied(Now, last.desc)

\* C6 amended: ... and it is applied whenever the underlying record accepts
\* it, as it always does for an absent or configurable attribute; a definition
\* the record rejects raises a TypeError and leaves the attribute as it was.
C6_DefineSchedulesOnValue ==
  last.op = "define" =>
    /\ last.nsched > 0 <=> DefinesNewValue
    /\ hasOwn(last.desc, "get") => last.nsched = 0
    /\ Before.kind = "absent" \/ Before.configurable => ~last.error
    /\ IF last.error THEN Now = Before ELSE Applied(Now, last.desc)

\* A getter installed over a different value, observed: nothing is scheduled.
C6_Witness ==
  /\ last.op = "define"
  /\ hasOwn(last.desc, "get")
  /\ Before.kind = "data"
  /\ last.desc.get # Get(Before)
  /\ observers[last.o] # <<>>
  /\ last.nsched = 0
  /\ Now.kind = "accessor"

\* C7: forceNotify with valid instances queues one flush, and every callback
\* subscribed to any of them is invoked exactly once in it.
C7_ForceNotifyEachOnce ==
  forced # {} =>
    /\ microtasks + flushes = 1
    /\ flushes = 1 => \A c \in forced : Once(c)

\* Two callbacks owed by forceNotify alone, and the flush has run.
C7_Witness ==
  /\ Quiescent
  /\ flushes = 1
  /\ nmut = 0
  /\ Cardinality(forced) >= 2
  /\ \A c \in forced : Once(c)

\* C8: forceNotify and useObservables with no argument or with an argument
\* that is no Observable throw, and change nothing: no scheduling call is
\* made, the queue, the queued flush and every Observer Set are as before.
C8_BadArgsThrowUntouched ==
  last.op \in {"forceNotify", "useObservables"} /\ last.args \notin ValidArgLists =>
    last.error /\ last.nsched = 0 /\ ~last.touched

\* forceNotify(obs, {}) where obs is observed and nothing is pending.
C8_Witness ==
  /\ last.op = "forceNotify"
  /\ Len(last.args) = 2
  /\ last.args[1] \in Obs
  /\ last.args[2] = NonObservable
  /\ observers[last.args[1]] # <<>>
  /\ last.error
  /\ callacksQueue = <<>>

\* C9: when a callback throws, the error stays in the flush and is logged,
\* every callback of the round is still invoked exactly once, and the flush
\* leaves the scheduler idle.
C9_ThrowIsolated ==
  Flushed /\ threw # {} =>
    /\ ~uncaught
    /\ logged = threw
    /\ \A c \in CB : via[c] # {} => Once(c)
    /\ callacksQueue = <<>> /\ calledCallbacks = {} /\ microtasks = 0

\* The first callback of the round threw and a second one was invoked.
C9_Witness ==
  /\ Flushed
  /\ Len(invoked) >= 2
  /\ invoked[1] \in threw
  /\ invoked[2] \notin threw
  /\ callacksQueue = <<>>

\* A callback removed from the Observer Set that enqueued it, before the flush,
\* and held by no Observer Set since.
Removed(c) ==
  c \in unsubscribed /\ \A o \in Obs : c \notin Range(observers[o])

\* C10 as stated: a callback unsubscribed after its round was scheduled and
\* before the flush is not invoked in that flush.
C10_AsStated ==
  Flushed => \A c \in CB : Removed(c) => Count(invoked, c) = 0

\* C10 amended: a callback unsubscribed after its round was scheduled and
\* before the flush is still invoked, exactly once, in that flush.
C10_UnsubscribedStillInvoked ==
  Flushed => \A c \in CB : Removed(c) => Once(c)

C10_Witness ==
  /\ Flushed
  /\ \E c \in CB : Removed(c) /\ Once(c) /\ mounted[c] = <<>>
  /\ flushes = 1

\* C11: a callback that no scheduling call of the round was given, also one
\* added to an Observer Set after that set was scheduled, is not invoked in the
\* round; whatever is invoked was enqueued in its round.
C11_LateSubscriberWaits ==
  \A c \in CB : via[c] = {} => Count(invoked, c) = 0

\* c sits in the Observer Set of an instance that enqueued another callback,
\* was not there when it did, and the flush has passed c by.
C11_Witness ==
  /\ Flushed
  /\ \E c \in CB, o \in Obs :
       /\ c \in Range(observers[o])
       /\ via[c] = {}
       /\ Count(invoked, c) = 0
       /\ \E d \in CB : o \in via[d] /\ Once(d)

\* The instances whose Observer Set holds c.
Holders(c) == {o \in Obs : c \in Range(observers[o])}

\* C12: a mounted component's re-render trigger is in the Observer Set of
\* every instance it was given and of no other; mounting adds the trigger to
\* these sets and changes nothing else in them, unmounting takes it out of
\* them and changes nothing else, so the sets are as before the mount whatever
\* other components did in between.
C12_SubscriptionLifecycle ==
  [][\A c \in CB :
       /\ mounted'[c] # <<>> => Holders(c)' = Range(mounted'[c])
       /\ mounted[c] = <<>> /\ mounted'[c] # <<>> =>
            \A o \in Obs : Range(observers'[o]) =
              IF o \in Range(mounted'[c]) THEN Range(observers[o]) \cup {c}
              ELSE Range(observers[o])
       /\ mounted[c] # <<>> /\ mounted'[c] = <<>> =>
            /\ Holders(c)' = {}
            /\ \A o \in Obs : Range(observers'[o]) = Range(observers[o]) \ {c}]_vars

\* A component has just unmounted while another, mounted on both instances,
\* stays subscribed to both.
C12_Witness ==
  /\ last.op = "unmount"
  /\ mounted[last.c] = <<>>
  /\ Holders(last.c) = {}
  /\ \E d \in CB : Range(mounted[d]) = Obs /\ \A o \in Obs : observers[o] = <<d>>

\* A plain record holding the enumerable own attributes of instance o.
PlainRecord(o) ==
  LET own == SelectSeq(PropOrder, LAMBDA p : attrs[o][p].kind # "absent"
                                             /\ attrs[o][p].enumerable)
      keys == [i \in 1..Len(own) |-> StringKey(own[i])]
  IN Object(keys,
            [k \in Range(keys) |->
               [kind |-> "data", value |-> Get(attrs[o][k.key]), writable |-> TRUE,
                enumerable |-> TRUE, configurable |-> TRUE]])

\* C13: reading an attribute, enumerating the keys and serializing an instance
\* schedule nothing and leave attributes, Observer Sets and scheduler as they
\* were; the read returns the attribute's value, the keys are the enumerable
\* own attribute names, and the serialization is that of a plain record with
\* the same enumerable own attributes: the Observer Set is in neither.
C13_ReadsHaveNoEffect ==
  last.op \in {"get", "keys", "stringify"} =>
    /\ ~last.touched
    /\ last.nsched = 0
    /\ last.op = "get" => last.ret = Get(attrs[last.o][last.p])
    /\ last.op = "keys" =>
         Range(last.ret) = {p \in Props : attrs[last.o][p].kind # "absent"
                                          /\ attrs[last.o][p].enumerable}
    /\ last.op = "stringify" =>
         /\ last.ret = SerializeJSONObject(PlainRecord(last.o))
         /\ \A i \in 1..Len(last.ret) : last.ret[i][1] \in Props

\* An observed instance with a hidden attribute and a NaN, serialized while a
\* flush is queued.
C13_Witness ==
  /\ last.op = "stringify"
  /\ last.o = 1
  /\ observers[1] # <<>>
  /\ microtasks = 1
  /\ attrs[1]["prop1"].kind = "data" /\ ~attrs[1]["prop1"].enumerable
  /\ Get(attrs[1]["prop2"]) = "NaN"
  /\ last.ret = << <<"prop2", "null">> >>

\* C14: new Observable() throws and leaves no instance and no trace; new of
\* a subclass succeeds, the instance has an empty Observer Set and its fields,
\* and installing the fields creates no round: the scheduler is as it was.
C14_Construction ==
  last.op = "new" =>
    IF last.newTarget = "Observable"
    THEN last.error /\ ~last.touched /\ last.nsched = 0
    ELSE /\ ~last.error
         /\ observers[last.o] = <<>>
         /\ ~last.round
         /\ \A i \in 1..Len(last.fields) :
              Get(attrs[last.o][last.fields[i][1]]) = last.fields[i][2]
         /\ \A p \in Props :
              attrs[last.o][p].kind # "absent" =>
                \E i \in 1..Len(last.fields) : last.fields[i][1] = p

\* A subclass with two fields is instantiated while the scheduler is idle:
\* the trap called scheduleCallbacks and no flush is queued.
C14_Witness ==
  /\ last.op = "new"
  /\ last.newTarget = "O"
  /\ Len(last.fields) = 2
  /\ last.nsched > 0
  /\ callacksQueue = <<>>
  /\ microtasks = 0
  /\ \E o \in Obs : observers[o] # <<>>

\* C15: every call of scheduleCallbacks with a set holding c is followed by an
\* invocation of c that starts after the call, also when the call is made by a
\* callback during a flush that has already invoked c. When no user code runs
\* and no flush is queued nothing more will be invoked, so by then no callback
\* may be scheduled and not invoked since.
C15_AsStated ==
  Quiescent => unserved = {}

\* C16: at most one flush is queued or running at any time: scheduling while
\* a round is pending, or from a callback while its flush runs, adds to the
\* working set and queues no second flush, so none is left when a flush ends.
C16_OneRoundPending ==
  /\ microtasks <= 1
  /\ Flushed => microtasks = 0

\* Both instances were scheduled one after the other, two callbacks wait, and
\* one flush is queued.
C16_Witness ==
  /\ phase = "sync"
  /\ microtasks = 1
  /\ Len(callacksQueue) = 2
  /\ \E c \in CB : via[c] = Obs

\* C17: the working set is non-empty exactly when a flush is queued (or runs):
\* scheduling an empty Observer Set while idle creates no round, and no
\* callback waits in the working set without a flush to come.
C17_WorkIffFlush ==
  /\ callacksQueue # <<>> <=> microtasks > 0
  /\ microtasks = 0 => calledCallbacks = {}

\* An instance nobody observes was written with a new value: the trap called
\* scheduleCallbacks and the scheduler is idle.
C17_Witness ==
  /\ last.op = "set"
  /\ ~last.error
  /\ last.nsched > 0
  /\ observers[last.o] = <<>>
  /\ callacksQueue = <<>>
  /\ microtasks = 0

\* C18: when a flush ends, working set and guard set are empty and nothing is
\* queued; each callback enqueued in the round was invoked once in it and no
\* other was; over all rounds a callback was invoked as often as rounds
\* enqueued it, so a callback of an earlier round is invoked again.
C18_FreshRounds ==
  /\ Flushed =>
       /\ callacksQueue = <<>> /\ calledCallbacks = {} /\ microtasks = 0
       /\ \A c \in CB : Count(invoked, c) = IF c \in Range(first) THEN 1 ELSE 0
  /\ Quiescent => \A c \in CB : tally[c].calls = tally[c].rounds

\* A callback of a second round has been invoked a second time, next to one
\* that one round only enqueued.
C18_Witness ==
  /\ Flushed
  /\ \E c, d \in CB :
       /\ tally[c] = [rounds |-> 2, calls |-> 2]
       /\ Once(c)
       /\ tally[d] = [rounds |-> 1, calls |-> 1]
       /\ Count(invoked, d) = 0

\* C19: the flush invokes the callbacks of the round in the order of their
\* first enqueue; enqueueing a callback again does not move it.
C19_FirstEnqueueOrder ==
  Flushed => invoked = first

\* Callback 2 was enqueued by one instance, then callbacks 1 and 2, in this
\* order, by the other: 2 is invoked before 1.
C19_Witness ==
  /\ Flushed
  /\ invoked = <<2, 1>>
  /\ via[2] = Obs
  /\ \E o \in Obs : via[1] = {o} /\ observers[o] = <<1, 2>>

\* C20: a write, a delete or a value definition that schedules the Observer
\* Set leaves the attribute different from what it was, also when the
\* underlying record rejects the operation.
C20_AsStated ==
  last.op \in {"set", "define", "delete"} /\ last.nsched > 0 => Now # Before

\* C21: a flush ends whatever its callbacks do: it invokes each callback at
\* most once, so at most as many as there are callbacks, also when callbacks
\* write to instances or call forceNotify and so schedule each other again, and
\* it leaves the scheduler idle with no further flush queued.
C21_FlushBounded ==
  Flushed =>
    /\ \A c \in CB : Count(invoked, c) <= 1
    /\ Len(invoked) <= NumCB
    /\ callacksQueue = <<>> /\ calledCallbacks = {} /\ microtasks = 0
    /\ ~uncaught

\* Every callback was invoked once and was scheduled again during the flush,
\* after its invocation had begun.
C21_Witness ==
  /\ Flushed
  /\ Len(invoked) = NumCB
  /\ \A c \in CB : Once(c) /\ c \in unserved
  /\ callacksQueue = <<>>

====
